---------------------------- MODULE Spec2Model ----------------------------
(***************************************************************************)
(* Task-Management-System: the Task entity and its validators (task.py),   *)
(* the TaskManager over the document store (task.py, database.py) and the  *)
(* console application's operation queue and worker thread (main.py).      *)
(*                                                                         *)
(* Python strings are sequences of one-character strings, so that strip,   *)
(* lower, capitalize, len, strftime and date parsing are computed and not  *)
(* assumed.  A datetime is a record of its seven fields.                   *)
(***************************************************************************)
EXTENDS Integers, Sequences, FiniteSets, TLC

(***************************************************************************)
(* str methods                                                             *)
(***************************************************************************)
UpperChars == <<"A","B","C","D","E","F","G","H","I","J","K","L","M",
                "N","O","P","Q","R","S","T","U","V","W","X","Y","Z">>
LowerChars == <<"a","b","c","d","e","f","g","h","i","j","k","l","m",
                "n","o","p","q","r","s","t","u","v","w","x","y","z">>

ToLower(c) ==
    IF \E i \in 1..Len(UpperChars) : UpperChars[i] = c
    THEN LowerChars[CHOOSE i \in 1..Len(UpperChars) : UpperChars[i] = c]
    ELSE c

ToUpper(c) ==
    IF \E i \in 1..Len(LowerChars) : LowerChars[i] = c
    THEN UpperChars[CHOOSE i \in 1..Len(LowerChars) : LowerChars[i] = c]
    ELSE c

\* str.lower()
lower(s) == [i \in 1..Len(s) |-> ToLower(s[i])]

\* str.capitalize(): first character upper-cased, the rest lower-cased
capitalize(s) == [i \in 1..Len(s) |-> IF i = 1 THEN ToUpper(s[i]) ELSE ToLower(s[i])]

IsSpace(c) == c = " "

RECURSIVE lstrip(_)
lstrip(s) == IF s # <<>> /\ IsSpace(Head(s)) THEN lstrip(Tail(s)) ELSE s

RECURSIVE rstrip(_)
rstrip(s) ==
    IF s # <<>> /\ IsSpace(s[Len(s)]) THEN rstrip(SubSeq(s, 1, Len(s) - 1)) ELSE s

\* str.strip()
strip(s) == rstrip(lstrip(s))

\* c * n
Repeat(c, n) == [i \in 1..n |-> c]

(***************************************************************************)
(* Results of a call that may raise: the value returned, or the exception  *)
(***************************************************************************)
Ok(v) == [ok |-> TRUE, val |-> v, err |-> "", msg |-> ""]
Raise(kind, message, dflt) == [ok |-> FALSE, val |-> dflt, err |-> kind, msg |-> message]

(***************************************************************************)
(* Task class constants and the string validators                          *)
(***************************************************************************)
PRIORITY_LEVELS == << <<"L","o","w">>,
                      <<"M","e","d","i","u","m">>,
                      <<"H","i","g","h">> >>
STATUS_OPTIONS == << <<"P","e","n","d","i","n","g">>,
                     <<"I","n"," ","P","r","o","g","r","e","s","s">>,
                     <<"C","o","m","p","l","e","t","e","d">> >>

Range(f) == {f[i] : i \in DOMAIN f}

MaxTitleLen == 100
MaxDescriptionLen == 1000

_validate_title(title) ==
    LET t == strip(title) IN
    IF t = <<>> THEN Raise("ValueError", "Title cannot be empty", <<>>)
    ELSE IF Len(t) > MaxTitleLen
         THEN Raise("ValueError", "Title cannot be longer than 100 characters", <<>>)
         ELSE Ok(t)

_validate_description(description) ==
    LET d == strip(description) IN
    IF d = <<>> THEN Raise("ValueError", "Description cannot be empty", <<>>)
    ELSE IF Len(d) > MaxDescriptionLen
         THEN Raise("ValueError", "Description cannot be longer than 1000 characters", <<>>)
         ELSE Ok(d)

\* _validate_priority checking the capitalized text but returning the text as typed
\* (mutant)
_validate_priority_as_typed(priority) ==
    IF capitalize(strip(priority)) \notin Range(PRIORITY_LEVELS)
    THEN Raise("ValueError", "Priority must be one of: Low, Medium, High", <<>>)
    ELSE Ok(strip(priority))

_validate_priority(priority) ==
    LET p == capitalize(strip(priority)) IN
    IF p \notin Range(PRIORITY_LEVELS)
    THEN Raise("ValueError", "Priority must be one of: Low, Medium, High", <<>>)
    ELSE Ok(p)

_validate_status(status) ==
    LET s == strip(status) IN
    IF lower(s) = lower(STATUS_OPTIONS[2]) THEN Ok(STATUS_OPTIONS[2])
    ELSE IF capitalize(s) \notin Range(STATUS_OPTIONS)
         THEN Raise("ValueError",
                    "Status must be one of: Pending, In Progress, Completed", <<>>)
         ELSE Ok(capitalize(s))

(***************************************************************************)
(* datetime                                                                *)
(***************************************************************************)
DateTime(y, mo, d, h, mi, s, us) ==
    [year |-> y, month |-> mo, day |-> d, hour |-> h, minute |-> mi,
     second |-> s, microsecond |-> us]

NoDateTime == DateTime(0, 0, 0, 0, 0, 0, 0)

DtKey(dt) == <<dt.year, dt.month, dt.day, dt.hour, dt.minute, dt.second, dt.microsecond>>

RECURSIVE SeqLess(_, _)
SeqLess(a, b) ==
    IF a = <<>> \/ b = <<>> THEN FALSE
    ELSE IF Head(a) # Head(b) THEN Head(a) < Head(b)
         ELSE SeqLess(Tail(a), Tail(b))

\* datetime.__lt__ on naive datetimes
DtLess(a, b) == SeqLess(DtKey(a), DtKey(b))

Digits == <<"0","1","2","3","4","5","6","7","8","9">>
IsDigit(c) == \E d \in 1..10 : Digits[d] = c
DigitVal(c) == (CHOOSE d \in 1..10 : Digits[d] = c) - 1

RECURSIVE Num(_)
Num(s) == IF s = <<>> THEN 0 ELSE 10 * Num(SubSeq(s, 1, Len(s) - 1)) + DigitVal(s[Len(s)])

AllDigits(s) == \A i \in 1..Len(s) : IsDigit(s[i])

Fmt2(n) == <<Digits[((n \div 10) % 10) + 1], Digits[(n % 10) + 1]>>
Fmt4(n) == <<Digits[((n \div 1000) % 10) + 1], Digits[((n \div 100) % 10) + 1]>> \o Fmt2(n)

IsLeap(y) == (y % 4 = 0 /\ y % 100 # 0) \/ y % 400 = 0
DaysInMonth(y, mo) ==
    IF mo = 2 THEN (IF IsLeap(y) THEN 29 ELSE 28)
    ELSE IF mo \in {4, 6, 9, 11} THEN 30 ELSE 31

(***************************************************************************)
(* dateutil.parser.parse on the shapes the application documents:          *)
(* YYYY-MM-DD, YYYY-MM-DD HH:MM and YYYY-MM-DD HH:MM:SS.  Fields the text  *)
(* does not carry are taken from the default, today at 00:00:00, so a bare *)
(* date parses to midnight.  Any other text raises ParserError, which is a *)
(* ValueError.                                                             *)
(***************************************************************************)
IsDateText(s) ==
    /\ Len(s) >= 10
    /\ AllDigits(SubSeq(s, 1, 4)) /\ s[5] = "-"
    /\ AllDigits(SubSeq(s, 6, 7)) /\ s[8] = "-"
    /\ AllDigits(SubSeq(s, 9, 10))
    /\ Num(SubSeq(s, 1, 4)) >= 1
    /\ Num(SubSeq(s, 6, 7)) \in 1..12
    /\ Num(SubSeq(s, 9, 10)) \in 1..DaysInMonth(Num(SubSeq(s, 1, 4)), Num(SubSeq(s, 6, 7)))

IsTimeText(s) ==
    /\ Len(s) \in {5, 8}
    /\ AllDigits(SubSeq(s, 1, 2)) /\ s[3] = ":"
    /\ AllDigits(SubSeq(s, 4, 5))
    /\ Num(SubSeq(s, 1, 2)) \in 0..23
    /\ Num(SubSeq(s, 4, 5)) \in 0..59
    /\ Len(s) = 8 => /\ s[6] = ":"
                     /\ AllDigits(SubSeq(s, 7, 8))
                     /\ Num(SubSeq(s, 7, 8)) \in 0..59

parser_parse(s) ==
    IF IsDateText(s) /\ (Len(s) = 10 \/ (s[11] = " " /\ IsTimeText(SubSeq(s, 12, Len(s)))))
    THEN LET y  == Num(SubSeq(s, 1, 4))
             mo == Num(SubSeq(s, 6, 7))
             d  == Num(SubSeq(s, 9, 10))
         IN  IF Len(s) = 10 THEN Ok(DateTime(y, mo, d, 0, 0, 0, 0))
             ELSE Ok(DateTime(y, mo, d, Num(SubSeq(s, 12, 13)), Num(SubSeq(s, 15, 16)),
                              IF Len(s) = 19 THEN Num(SubSeq(s, 18, 19)) ELSE 0, 0))
    ELSE Raise("ValueError", "Unknown string format", NoDateTime)

\* datetime.replace(hour=23, minute=59, second=59, microsecond=0)
EndOfDay(dt) == [dt EXCEPT !.hour = 23, !.minute = 59, !.second = 59, !.microsecond = 0]

\* _parse_date comparing calendar days only (mutant)
_parse_date_by_day(date_str, validate_past, current_date) ==
    LET first == parser_parse(date_str)
    IN  IF ~first.ok THEN first
        ELSE IF validate_past
                /\ SeqLess(<<first.val.year, first.val.month, first.val.day>>,
                           <<current_date.year, current_date.month, current_date.day>>)
             THEN Raise("ValueError", "Due date and time cannot be in the past", NoDateTime)
             ELSE first

(***************************************************************************)
(* Task._parse_date(date_str, validate_past) at clock reading current_date.*)
(* The first parser.parse decides: when it returns, its value is used as   *)
(* it is; when it raises, the handler calls parser.parse on the same text, *)
(* which raises again, so the replace(hour=23, ...) after it never runs.   *)
(***************************************************************************)
_parse_date(date_str, validate_past, current_date) ==
    LET first == parser_parse(date_str)
        parsed == IF first.ok THEN first
                  ELSE LET again == parser_parse(date_str)
                       IN  IF again.ok THEN Ok(EndOfDay(again.val)) ELSE again
    IN  IF ~parsed.ok THEN parsed
        ELSE IF validate_past /\ DtLess(parsed.val, current_date)
             THEN Raise("ValueError", "Due date and time cannot be in the past", NoDateTime)
             ELSE parsed

_parse_filter_date(date_str, current_date) == _parse_date(date_str, FALSE, current_date)

\* dt.strftime('%Y-%m-%d')
strftime_date(dt) == Fmt4(dt.year) \o <<"-">> \o Fmt2(dt.month) \o <<"-">> \o Fmt2(dt.day)

\* dt.strftime('%Y-%m-%d %H:%M')
strftime_minutes(dt) ==
    strftime_date(dt) \o <<" ">> \o Fmt2(dt.hour) \o <<":">> \o Fmt2(dt.minute)

\* Task._format_datetime
_format_datetime(dt) ==
    IF dt.hour = 23 /\ dt.minute = 59 /\ dt.second = 59
    THEN strftime_date(dt)
    ELSE strftime_minutes(dt)

\* list_tasks: the "Due Date:" line of a listed task
list_tasks_due_date(dt) ==
    IF dt.hour # 23 THEN strftime_minutes(dt) ELSE strftime_date(dt)

(***************************************************************************)
(* Values of a document's due_date field: a datetime, or a str when an     *)
(* update has stored the caller's text                                     *)
(***************************************************************************)
DtVal(dt) == [type |-> "datetime", dt |-> dt, str |-> <<>>]
StrVal(s) == [type |-> "str", dt |-> NoDateTime, str |-> s]

\* Python's None where a str is expected (Task.id of a task not yet stored)
None == <<>>

NoTask ==
    [id |-> None, title |-> <<>>, description |-> <<>>, due_date |-> NoDateTime,
     priority |-> <<>>, status |-> <<>>, creation_timestamp |-> NoDateTime]

\* Task.__init__ storing the description without validating it (mutant)
Task_unchecked_description(title, description, due_date, priority, status, task_id, validate_past, clock) ==
    LET t  == _validate_title(title)
        dd == _parse_date(due_date, validate_past, clock)
        p  == _validate_priority(priority)
        s  == _validate_status(status)
    IN  IF ~t.ok THEN Raise(t.err, t.msg, NoTask)
        ELSE IF ~dd.ok THEN Raise(dd.err, dd.msg, NoTask)
        ELSE IF ~p.ok THEN Raise(p.err, p.msg, NoTask)
        ELSE IF ~s.ok THEN Raise(s.err, s.msg, NoTask)
        ELSE Ok([id |-> task_id, title |-> t.val, description |-> strip(description),
                 due_date |-> dd.val, priority |-> p.val, status |-> s.val,
                 creation_timestamp |-> clock])

(***************************************************************************)
(* Task.__init__ at clock reading `clock` (datetime.now() for the past     *)
(* check, datetime.utcnow() for creation_timestamp: one clock, offset 0).  *)
(* The validators run in the order of the assignments; the first one that  *)
(* raises ends the construction.                                           *)
(***************************************************************************)
Task(title, description, due_date, priority, status, task_id, validate_past, clock) ==
    LET t  == _validate_title(title)
        d  == _validate_description(description)
        dd == _parse_date(due_date, validate_past, clock)
        p  == _validate_priority(priority)
        s  == _validate_status(status)
    IN  IF ~t.ok THEN Raise(t.err, t.msg, NoTask)
        ELSE IF ~d.ok THEN Raise(d.err, d.msg, NoTask)
        ELSE IF ~dd.ok THEN Raise(dd.err, dd.msg, NoTask)
        ELSE IF ~p.ok THEN Raise(p.err, p.msg, NoTask)
        ELSE IF ~s.ok THEN Raise(s.err, s.msg, NoTask)
        ELSE Ok([id |-> task_id, title |-> t.val, description |-> d.val,
                 due_date |-> dd.val, priority |-> p.val, status |-> s.val,
                 creation_timestamp |-> clock])

\* Task.to_dict
to_dict(task) ==
    LET task_dict == [title |-> task.title, description |-> task.description,
                      due_date |-> DtVal(task.due_date), priority |-> task.priority,
                      status |-> task.status,
                      creation_timestamp |-> task.creation_timestamp]
    IN  IF task.id # None THEN task_dict @@ [_id |-> task.id] ELSE task_dict

\* The text Task.from_dict hands to the constructor as due_date
from_dict_due_text(due_date) ==
    IF due_date.type = "datetime" THEN strftime_minutes(due_date.dt) ELSE due_date.str

\* Task.from_dict
from_dict(data, clock) ==
    LET made == Task(data.title, data.description, from_dict_due_text(data.due_date),
                     data.priority, data.status,
                     IF "_id" \in DOMAIN data THEN data._id ELSE None,
                     FALSE, clock)
    IN  IF made.ok
        THEN Ok([made.val EXCEPT !.creation_timestamp = data.creation_timestamp])
        ELSE made

(***************************************************************************)
(* bson.ObjectId: ObjectId(text) accepts exactly 24 hexadecimal characters *)
(* and raises InvalidId otherwise; str(oid) is the lower-case hex text.    *)
(***************************************************************************)
HexChars == Range(Digits) \cup {"a","b","c","d","e","f","A","B","C","D","E","F"}

\* ObjectId accepting any text of 24 characters (mutant)
ObjectId_any_24(text) ==
    IF Len(text) = 24 THEN Ok(lower(text))
    ELSE Raise("InvalidId", "is not a valid ObjectId", <<>>)

ObjectId(text) ==
    IF Len(text) = 24 /\ \A i \in 1..Len(text) : text[i] \in HexChars
    THEN Ok(lower(text))
    ELSE Raise("InvalidId", "is not a valid ObjectId", <<>>)

\* The n-th identifier the store generates: fresh, never reused
NewObjectId(n) == Repeat("0", 22) \o Fmt2(n)

(***************************************************************************)
(* Database (database.py) over the tasks collection: a function from _id   *)
(* to the document's other fields.  Each operator returns the collection   *)
(* after the call and what the call returned.                              *)
(***************************************************************************)
\* update_one's {"$set": fields}: each field given replaces or adds that field
SetFields(doc, fields) ==
    [k \in DOMAIN doc \cup DOMAIN fields |-> IF k \in DOMAIN fields THEN fields[k] ELSE doc[k]]

\* Database.add_task: creation_timestamp is set here, then insert_one (no _id given:
\* the store generates one)
add_task(tasks, n, task_data, clock) ==
    LET doc == SetFields(task_data, [creation_timestamp |-> clock])
        oid == NewObjectId(n)
    IN  [tasks |-> tasks @@ (oid :> doc), inserted_id |-> oid]

\* collection.update_one({"_id": oid}, {"$set": fields}).modified_count > 0
update_one(tasks, oid, fields) ==
    IF oid \in DOMAIN tasks /\ SetFields(tasks[oid], fields) # tasks[oid]
    THEN [tasks |-> [tasks EXCEPT ![oid] = SetFields(tasks[oid], fields)], modified |-> TRUE]
    ELSE [tasks |-> tasks, modified |-> FALSE]

\* The document fields an update payload sets: the caller's text as it is, so a
\* due_date given as text is stored as a str
AsFields(update_data) ==
    [k \in DOMAIN update_data |->
        IF k = "due_date" THEN StrVal(update_data[k]) ELSE update_data[k]]

\* Database.update_task
db_update_task(tasks, oid, update_data) == update_one(tasks, oid, AsFields(update_data))

\* mark_task_completed returning whether a record matched (mutant)
mark_task_completed_if_matched(tasks, oid) ==
    [tasks |-> update_one(tasks, oid, [status |-> STATUS_OPTIONS[3]]).tasks,
     modified |-> oid \in DOMAIN tasks]

\* Database.mark_task_completed
mark_task_completed(tasks, oid) == update_one(tasks, oid, [status |-> STATUS_OPTIONS[3]])

\* Database.delete_task: delete_one({"_id": oid}).deleted_count > 0
db_delete_task(tasks, oid) ==
    [tasks |-> [k \in DOMAIN tasks \ {oid} |-> tasks[k]], deleted |-> oid \in DOMAIN tasks]

\* delete_all_tasks returning true whatever was deleted (mutant)
db_delete_all_tasks_always_true(tasks) ==
    [tasks |-> [k \in {} |-> tasks[k]], deleted |-> TRUE]

\* Database.delete_all_tasks: delete_many({}).deleted_count > 0
db_delete_all_tasks(tasks) ==
    [tasks |-> [k \in {} |-> tasks[k]], deleted |-> DOMAIN tasks # {}]

(***************************************************************************)
(* Database.get_tasks.  A title filter becomes the regular expression      *)
(* ^title$ with option i, the title's characters put into the pattern as   *)
(* they are.  Of the pattern language the characters '.' (any character)   *)
(* and '*' (the item before it, any number of times) are modelled; every   *)
(* other character stands for itself.                                      *)
(***************************************************************************)
\* One item of a pattern against one character, letter case ignored
AtomMatches(a, c) == a = "." \/ ToLower(a) = ToLower(c)

\* The pattern is one the store accepts: a '*' has an item before it to repeat
RegexValid(pattern) ==
    \A i \in 1..Len(pattern) :
        pattern[i] = "*" => (i > 1 /\ pattern[i - 1] # "*")

RECURSIVE RegexMatches(_, _)
\* ^pattern$ matches the whole of text
RegexMatches(pattern, text) ==
    IF pattern = <<>> THEN text = <<>>
    ELSE IF Len(pattern) >= 2 /\ pattern[2] = "*"
         THEN \/ RegexMatches(Tail(Tail(pattern)), text)
              \/ /\ text # <<>>
                 /\ AtomMatches(pattern[1], text[1])
                 /\ RegexMatches(pattern, Tail(text))
         ELSE /\ text # <<>>
              /\ AtomMatches(pattern[1], text[1])
              /\ RegexMatches(Tail(pattern), Tail(text))

\* The bounds of a due_date filter: {"$gte": dt}, {"$lte": dt} or both
Gte == "$gte"
Lte == "$lte"

\* collection.find(filters): whether the document stored under oid satisfies every
\* condition.  Comparison operators match values of the bound's type only: a
\* due_date held as a str satisfies no datetime bound.
FilterMatches(oid, doc, filters) ==
    /\ "_id" \in DOMAIN filters => oid = ObjectId(filters._id).val
    /\ "title" \in DOMAIN filters => RegexMatches(filters.title, doc.title)
    /\ "priority" \in DOMAIN filters => doc.priority = filters.priority
    /\ "status" \in DOMAIN filters => doc.status = filters.status
    /\ "due_date" \in DOMAIN filters =>
           /\ doc.due_date.type = "datetime"
           /\ Gte \in DOMAIN filters.due_date =>
                  ~DtLess(doc.due_date.dt, filters.due_date[Gte])
           /\ Lte \in DOMAIN filters.due_date =>
                  ~DtLess(filters.due_date[Lte], doc.due_date.dt)

\* The identifiers the store has generated, in the order of insertion
InsertionOrder(n) == [i \in 1..(n - 1) |-> NewObjectId(i)]

\* Database.get_tasks: the documents found, each with its _id, in insertion order
db_get_tasks(tasks, n, filters) ==
    IF "_id" \in DOMAIN filters /\ ~ObjectId(filters._id).ok
    THEN Raise("ValueError", "Invalid task ID format", <<>>)
    ELSE IF "title" \in DOMAIN filters /\ ~RegexValid(filters.title)
    THEN Raise("OperationFailure", "Regular expression is invalid", <<>>)
    ELSE LET hits == SelectSeq(InsertionOrder(n),
                         LAMBDA oid : /\ oid \in DOMAIN tasks
                                      /\ FilterMatches(oid, tasks[oid], filters))
         IN  Ok([i \in 1..Len(hits) |-> tasks[hits[i]] @@ [_id |-> hits[i]]])

(***************************************************************************)
(* TaskManager (task.py).  Each operator returns the collection and the    *)
(* identifier counter after the call, whether the call returned or raised  *)
(* (ok, err, msg), the value returned (ret for the bool results, id for    *)
(* create_task) and how many Database calls it made.                       *)
(***************************************************************************)
Returned(tasks, n, ret, id, calls) ==
    [tasks |-> tasks, n |-> n, ok |-> TRUE, err |-> "", msg |-> "",
     ret |-> ret, id |-> id, dbCalls |-> calls]
Raised(tasks, n, err, msg) ==
    [tasks |-> tasks, n |-> n, ok |-> FALSE, err |-> err, msg |-> msg,
     ret |-> FALSE, id |-> None, dbCalls |-> 0]

InvalidTaskId == "Invalid task ID format"

\* TaskManager.create_task
create_task(tasks, n, task_data, clock) ==
    LET task == Task(task_data.title, task_data.description, task_data.due_date,
                     task_data.priority,
                     IF "status" \in DOMAIN task_data THEN task_data.status
                     ELSE STATUS_OPTIONS[1],
                     None, TRUE, clock)
    IN  IF ~task.ok THEN Raised(tasks, n, task.err, task.msg)
        ELSE LET added == add_task(tasks, n, to_dict(task.val), clock)
             IN  Returned(added.tasks, n + 1, FALSE, added.inserted_id, 1)

\* The checks TaskManager.update_task makes on the payload, in order
update_checks(update_data, clock) ==
    LET p == IF "priority" \in DOMAIN update_data
             THEN _validate_priority(update_data.priority) ELSE Ok(<<>>)
        s == IF "status" \in DOMAIN update_data
             THEN _validate_status(update_data.status) ELSE Ok(<<>>)
        d == IF "due_date" \in DOMAIN update_data
             THEN _parse_date(update_data.due_date, TRUE, clock) ELSE Ok(NoDateTime)
    IN  IF ~p.ok THEN [ok |-> FALSE, err |-> p.err, msg |-> p.msg]
        ELSE IF ~s.ok THEN [ok |-> FALSE, err |-> s.err, msg |-> s.msg]
        ELSE IF ~d.ok THEN [ok |-> FALSE, err |-> d.err, msg |-> d.msg]
        ELSE [ok |-> TRUE, err |-> "", msg |-> ""]

\* What get_tasks returns given what from_dict made of each document found: the
\* list of tasks, or what the first from_dict that raised has raised
AllBuilt(built) ==
    IF \A i \in 1..Len(built) : built[i].ok
    THEN Ok([i \in 1..Len(built) |-> built[i].val])
    ELSE LET i == CHOOSE i \in 1..Len(built) :
                      ~built[i].ok /\ \A j \in 1..(i - 1) : built[j].ok
         IN  Raise(built[i].err, built[i].msg, <<>>)

\* Task.from_dict on every document found
BuildAll(tasks_data, clock) ==
    IF ~tasks_data.ok THEN tasks_data
    ELSE AllBuilt([i \in 1..Len(tasks_data.val) |-> from_dict(tasks_data.val[i], clock)])

\* TaskManager.get_tasks
get_tasks(tasks, n, filters, clock) == BuildAll(db_get_tasks(tasks, n, filters), clock)

\* TaskManager.update_task
update_task(tasks, n, task_id, update_data, clock) ==
    LET oid == ObjectId(task_id)
        chk == update_checks(update_data, clock)
    IN  IF ~oid.ok THEN Raised(tasks, n, "ValueError", InvalidTaskId)
        ELSE IF ~chk.ok THEN Raised(tasks, n, chk.err, chk.msg)
        ELSE LET done == db_update_task(tasks, oid.val, update_data)
             IN  Returned(done.tasks, n, done.modified, None, 1)

\* TaskManager.delete_task
delete_task(tasks, n, task_id) ==
    LET oid == ObjectId(task_id)
    IN  IF ~oid.ok THEN Raised(tasks, n, "ValueError", InvalidTaskId)
        ELSE LET done == db_delete_task(tasks, oid.val)
             IN  Returned(done.tasks, n, done.deleted, None, 1)

\* TaskManager.mark_completed
mark_completed(tasks, n, task_id) ==
    LET oid == ObjectId(task_id)
    IN  IF ~oid.ok THEN Raised(tasks, n, "ValueError", InvalidTaskId)
        ELSE LET done == mark_task_completed(tasks, oid.val)
             IN  Returned(done.tasks, n, done.modified, None, 1)

\* TaskManager.delete_all_tasks
delete_all_tasks(tasks, n) ==
    LET done == db_delete_all_tasks(tasks)
    IN  Returned(done.tasks, n, done.deleted, None, 1)

(***************************************************************************)
(* Inputs                                                                  *)
(***************************************************************************)
T0 == DateTime(2024, 6, 15, 12, 0, 0, 0)
T1 == DateTime(2024, 6, 15, 12, 0, 0, 500000)
Instants == {T0, T1}

TitleReport == <<"R","e","p","o","r","t">>
TitlePadded == <<" ">> \o TitleReport \o <<" ">>
ShortTitles == {TitleReport, TitlePadded, <<>>}
Titles == ShortTitles \cup {Repeat("x", MaxTitleLen), Repeat("x", MaxTitleLen + 1)}

DescShip == <<"S","h","i","p"," ","i","t">>
ShortDescriptions == {DescShip, <<" ">>}
Descriptions == ShortDescriptions \cup {Repeat("y", MaxDescriptionLen + 1)}

DuePastDay    == <<"2","0","2","4","-","0","6","-","1","4">>
DueToday      == <<"2","0","2","4","-","0","6","-","1","5">>
DueTodayEarly == <<"2","0","2","4","-","0","6","-","1","5"," ","1","0",":","3","0">>
DueTodayNoon  == <<"2","0","2","4","-","0","6","-","1","5"," ","1","2",":","0","0">>
DueLater      == <<"2","0","2","4","-","0","6","-","2","0">>
DueLaterSecs  == <<"2","0","2","4","-","0","6","-","2","0"," ","1","0",":","3","0",":","4","5">>
DueLaterLast  == <<"2","0","2","4","-","0","6","-","2","0"," ","2","3",":","5","9",":","5","9">>
DueLaterEvening == <<"2","0","2","4","-","0","6","-","2","0"," ","2","3",":","3","0">>
DueGarbage    == <<"s","o","o","n">>
DueTexts == {DuePastDay, DueToday, DueTodayEarly, DueTodayNoon, DueLater,
             DueLaterSecs, DueLaterLast, DueLaterEvening, DueGarbage}

\* A creation_timestamp a caller puts in an update payload
TimestampGiven == DateTime(2020, 1, 1, 0, 0, 0, 0)

PrioHighLower == <<"h","i","g","h">>
PrioUrgent    == <<"u","r","g","e","n","t">>
Priorities == {PRIORITY_LEVELS[1], PrioHighLower, PrioUrgent}

StatusPendingLower  == <<"p","e","n","d","i","n","g">>
StatusProgressLower == <<"i","n"," ","p","r","o","g","r","e","s","s">>
StatusDone          == <<"d","o","n","e">>
Statuses == {STATUS_OPTIONS[1], StatusPendingLower, StatusProgressLower, StatusDone}

StatusProgressUpper  == <<"I","N"," ","P","R","O","G","R","E","S","S">>
StatusProgressSpaced == <<"I","n"," "," "," ","P","r","o","g","r","e","s","s">>
StatusPendingPadded  == <<" ","p","e","n","d","i","n","g"," ">>
StatusCompletedUpper == <<"C","O","M","P","L","E","T","E","D">>
StatusInprogress     == <<"i","n","p","r","o","g","r","e","s","s">>
\* What _validate_status is called with
StatusTexts ==
    Range(STATUS_OPTIONS) \cup Statuses
    \cup {StatusProgressUpper, StatusProgressSpaced, StatusPendingPadded,
          StatusCompletedUpper, StatusInprogress, <<>>}

(***************************************************************************)
(* State                                                                   *)
(***************************************************************************)
VARIABLES
    now,        \* the clock: what datetime.now() returns
    store,      \* Database.tasks: the collection, _id -> document
    nextId,     \* how many identifiers the store has generated, plus one
    calls,      \* how many TaskManager calls have been made
    last,       \* the last TaskManager call: its arguments and its outcome
    callerPc,   \* main thread: "menu", "finding", "chosen", "range_prompt", "listing",
                \*   "deleting_all",
                \*   "waiting" (in result_queue.get()), "joining", "closed"
    callerOp,   \* main thread: the operation it is preparing or waiting for
    operation_queue,    \* TaskManagementApp.operation_queue, oldest first
    result_queue,       \* TaskManagementApp.result_queue, oldest first
    workerPc,   \* worker thread: "get" (in operation_queue.get()), "executing",
                \*   "posting", "terminated"
    workerOp,   \* worker thread: the operation it took from the queue
    workerRes,  \* worker thread: the outcome it is about to post
    dbOpen,     \* the store connection is open
    enqueued,   \* history: how many operations have been put on operation_queue
    posted,     \* history: the outcomes put on result_queue, oldest first
    received,   \* history: the last outcome the main thread took, and for which operation
    listing,    \* main thread: the last answer to list_tasks's date range prompt and
                \*   what became of it
    found,      \* main thread: its last task_manager.get_tasks call and what it returned
    taskPc,     \* Task entity: "idle", "task", "raised", "dict", "back", "parsed",
                \*   "validated", "shown"
    taskArgs,   \* Task entity: the constructor's arguments
    taskMade,   \* Task entity: what Task(...) returned or raised
    taskDict,   \* Task entity: task.to_dict()
    taskBack,   \* Task entity: what Task.from_dict(task.to_dict()) returned or raised
    parsed,     \* Task entity: the last _parse_date call and its outcome
    validated,  \* Task entity: the last _validate_status call and its outcome
    shown       \* Task entity: the due date of the task held, as __str__ and as
                \*   list_tasks print it

taskVars == <<taskPc, taskArgs, taskMade, taskDict, taskBack, parsed, validated, shown>>
mgrVars == <<store, nextId, calls, last>>
appVars == <<callerPc, callerOp, operation_queue, result_queue, workerPc, workerOp,
             workerRes, dbOpen, enqueued, posted, received, listing, found>>
vars == <<now, mgrVars, taskVars, appVars>>

NoArgs ==
    [title |-> <<>>, description |-> <<>>, due_date |-> <<>>, priority |-> <<>>,
     status |-> <<>>, task_id |-> None, validate_past |-> FALSE]
NoParsed ==
    [date_str |-> <<>>, validate_past |-> FALSE, current_date |-> NoDateTime,
     res |-> Raise("", "", NoDateTime)]

NoValidated == [status |-> <<>>, res |-> Raise("", "", <<>>)]
NoShown == [due_date |-> NoDateTime, str |-> <<>>, listed |-> <<>>]

EmptyTasks == [k \in {} |-> k]
NoCall ==
    [op |-> "none", task_id |-> None, data |-> EmptyTasks, at |-> NoDateTime,
     ok |-> TRUE, err |-> "", msg |-> "", ret |-> FALSE, id |-> None,
     dbCalls |-> 0, matched |-> FALSE, changed |-> FALSE]

MgrIdle ==
    /\ store = EmptyTasks
    /\ nextId = 1
    /\ calls = 0
    /\ last = NoCall

\* An operation on the queue: {'type': ..., 'data': ...}; ticket is history, the
\* operation's place in the order of enqueueing
Operation(type, data, ticket) == [type |-> type, data |-> data, ticket |-> ticket]
NoOperation == Operation("", EmptyTasks, 0)
\* The None that close() puts on the queue
Shutdown == Operation("None", EmptyTasks, 0)
NoResult ==
    [success |-> FALSE, ret |-> FALSE, id |-> None, error |-> "",
     timestamp |-> NoDateTime, ticket |-> 0]

NoListing ==
    [from |-> <<>>, to |-> <<>>, outcome |-> "none", filters |-> EmptyTasks]
NoFound == [filters |-> EmptyTasks, ok |-> TRUE, ids |-> <<>>]

\* TaskManagementApp.__init__: both queues empty, the worker thread started
AppIdle ==
    /\ callerPc = "menu"
    /\ callerOp = NoOperation
    /\ operation_queue = <<>>
    /\ result_queue = <<>>
    /\ workerPc = "get"
    /\ workerOp = NoOperation
    /\ workerRes = NoResult
    /\ dbOpen = TRUE
    /\ enqueued = 0
    /\ posted = <<>>
    /\ received = [mine |-> 0, got |-> NoResult]
    /\ listing = NoListing
    /\ found = NoFound

TaskIdle ==
    /\ taskPc = "idle"
    /\ taskArgs = NoArgs
    /\ taskMade = Raise("", "", NoTask)
    /\ taskDict = to_dict(NoTask)
    /\ taskBack = Raise("", "", NoTask)
    /\ parsed = NoParsed
    /\ validated = NoValidated
    /\ shown = NoShown

\* Time passes: the clock only moves forward
Tick ==
    /\ \E t \in Instants : DtLess(now, t) /\ now' = t
    /\ UNCHANGED <<mgrVars, taskVars, appVars>>

(***************************************************************************)
(* The Task entity on its own: construction, to_dict, from_dict, and       *)
(* _parse_date in both modes                                               *)
(***************************************************************************)
AnObjectIdText == Repeat("a", 24)

Construct ==
    \E title \in ShortTitles, description \in ShortDescriptions, due_date \in DueTexts,
       priority \in Priorities, status \in Statuses, task_id \in {None, AnObjectIdText},
       validate_past \in BOOLEAN :
        /\ taskPc = "idle"
        /\ taskArgs' = [title |-> title, description |-> description,
                        due_date |-> due_date, priority |-> priority, status |-> status,
                        task_id |-> task_id, validate_past |-> validate_past]
        /\ taskMade' = Task(title, description, due_date, priority, status, task_id,
                            validate_past, now)
        /\ taskPc' = IF taskMade'.ok THEN "task" ELSE "raised"
        /\ taskDict' = to_dict(NoTask)
        /\ taskBack' = Raise("", "", NoTask)
        /\ parsed' = NoParsed
        /\ UNCHANGED <<now, mgrVars, appVars, validated, shown>>

ToDict ==
    /\ taskPc = "task"
    /\ taskDict' = to_dict(taskMade.val)
    /\ taskPc' = "dict"
    /\ UNCHANGED <<now, mgrVars, appVars, taskArgs, taskMade, taskBack, parsed, validated,
                   shown>>

FromDict ==
    /\ taskPc = "dict"
    /\ taskBack' = from_dict(taskDict, now)
    /\ taskPc' = "back"
    /\ UNCHANGED <<now, mgrVars, appVars, taskArgs, taskMade, taskDict, parsed, validated,
                   shown>>

ParseDate ==
    \E date_str \in DueTexts, validate_past \in BOOLEAN :
        /\ taskPc = "idle"
        /\ parsed' = [date_str |-> date_str, validate_past |-> validate_past,
                      current_date |-> now,
                      res |-> _parse_date(date_str, validate_past, now)]
        /\ taskPc' = "parsed"
        /\ taskArgs' = NoArgs
        /\ taskMade' = Raise("", "", NoTask)
        /\ taskDict' = to_dict(NoTask)
        /\ taskBack' = Raise("", "", NoTask)
        /\ UNCHANGED <<now, mgrVars, appVars, validated, shown>>

\* Task._validate_status on a text
ValidateStatus ==
    \E status \in StatusTexts :
        /\ taskPc = "idle"
        /\ validated' = [status |-> status, res |-> _validate_status(status)]
        /\ taskPc' = "validated"
        /\ UNCHANGED <<now, mgrVars, appVars, taskArgs, taskMade, taskDict, taskBack,
                       parsed, shown>>

\* The task held: the one constructed, or the one from_dict rebuilt
TaskHeld == IF taskPc = "back" THEN taskBack ELSE taskMade

\* The task held is displayed: Task.__str__ and the listing of list_tasks
Show ==
    /\ taskPc \in {"task", "back"}
    /\ TaskHeld.ok
    /\ shown' = [due_date |-> TaskHeld.val.due_date,
                 str |-> _format_datetime(TaskHeld.val.due_date),
                 listed |-> list_tasks_due_date(TaskHeld.val.due_date)]
    /\ taskPc' = "shown"
    /\ UNCHANGED <<now, mgrVars, appVars, taskArgs, taskMade, taskDict, taskBack, parsed,
                   validated>>

\* The caller drops what it holds and starts over
Discard ==
    /\ taskPc # "idle"
    /\ taskPc' = "idle"
    /\ taskArgs' = NoArgs
    /\ taskMade' = Raise("", "", NoTask)
    /\ taskDict' = to_dict(NoTask)
    /\ taskBack' = Raise("", "", NoTask)
    /\ parsed' = NoParsed
    /\ validated' = NoValidated
    /\ shown' = NoShown
    /\ UNCHANGED <<now, mgrVars, appVars>>

TaskInit == now = T0 /\ TaskIdle /\ MgrIdle /\ AppIdle
TaskNext ==
    Tick \/ Construct \/ ToDict \/ FromDict \/ ParseDate \/ ValidateStatus \/ Show \/ Discard
TaskSpec == TaskInit /\ [][TaskNext]_vars

(***************************************************************************)
(* The TaskManager over the store: any sequence of create_task,            *)
(* update_task, delete_task, mark_completed and delete_all_tasks calls,    *)
(* with the clock moving in between                                        *)
(***************************************************************************)
MaxCalls == 3

With(d, k, v) == SetFields(d, k :> v)
Present(data, k) == k \in DOMAIN data

BaseCreate ==
    [title |-> TitleReport, description |-> DescShip, due_date |-> DueLater,
     priority |-> PrioHighLower]

CreateInputs ==
    {BaseCreate}
    \cup {With(BaseCreate, "title", t) : t \in Titles}
    \cup {With(BaseCreate, "description", d) : d \in Descriptions}
    \cup {With(BaseCreate, "due_date", d) :
              d \in {DuePastDay, DueTodayNoon, DueLaterSecs, DueGarbage}}
    \cup {With(BaseCreate, "priority", PrioUrgent)}
    \cup {With(BaseCreate, "status", st) : st \in {StatusProgressLower, StatusDone}}

UpdateInputs ==
    {EmptyTasks}
    \cup {[title |-> t] : t \in {<<>>, Repeat("x", MaxTitleLen + 1)}}
    \cup {[description |-> d] : d \in {<<" ">>, Repeat("y", MaxDescriptionLen + 1)}}
    \cup {[priority |-> p] : p \in {PrioHighLower, PrioUrgent}}
    \cup {[status |-> st] : st \in {StatusPendingLower, StatusDone}}
    \cup {[due_date |-> d] : d \in {DuePastDay, DueLater}}
    \cup {[creation_timestamp |-> TimestampGiven]}

IdUnknown == Repeat("f", 24)
IdShort == <<"x", "y", "z">>
IdNotHex == Repeat("g", 24)
MalformedIds == {IdShort, IdNotHex}
WellFormedIds == DOMAIN store \cup {IdUnknown}
IdInputs == WellFormedIds \cup MalformedIds
\* update_task's inputs: every payload with each well-formed identifier, and two
\* payloads, one valid and one not, with each malformed one
UpdateCalls ==
    (WellFormedIds \X UpdateInputs)
    \cup (MalformedIds \X {[priority |-> PrioHighLower], [priority |-> PrioUrgent]})

\* What is recorded of a call: its arguments, the clock reading, the outcome r, and
\* how the collection `before` compares with the collection after
Call(op, task_id, data, r, before) ==
    [op |-> op, task_id |-> task_id, data |-> data, at |-> now,
     ok |-> r.ok, err |-> r.err, msg |-> r.msg, ret |-> r.ret, id |-> r.id,
     dbCalls |-> r.dbCalls,
     matched |-> task_id \in DOMAIN before,
     changed |-> r.tasks # before]

Done(op, task_id, data, r) ==
    /\ calls < MaxCalls
    /\ calls' = calls + 1
    /\ store' = r.tasks
    /\ nextId' = r.n
    /\ last' = Call(op, task_id, data, r, store)
    /\ UNCHANGED <<now, taskVars, appVars>>

Create ==
    \E task_data \in CreateInputs :
        Done("create", None, task_data, create_task(store, nextId, task_data, now))

Update ==
    \E c \in UpdateCalls :
        Done("update", c[1], c[2], update_task(store, nextId, c[1], c[2], now))

Delete ==
    \E task_id \in IdInputs :
        Done("delete", task_id, EmptyTasks, delete_task(store, nextId, task_id))

Complete ==
    \E task_id \in IdInputs :
        Done("complete", task_id, EmptyTasks, mark_completed(store, nextId, task_id))

DeleteAll ==
    Done("delete_all", None, EmptyTasks, delete_all_tasks(store, nextId))

Init == now = T0 /\ MgrIdle /\ TaskIdle /\ AppIdle
Next == Tick \/ Create \/ Update \/ Delete \/ Complete \/ DeleteAll
Spec == Init /\ [][Next]_vars

(***************************************************************************)
(* The console application (main.py): the main thread works through the    *)
(* menu, the worker thread drains operation_queue.  A TaskManager call is  *)
(* in flight from the step that starts it to the step that ends it.        *)
(***************************************************************************)
\* What is typed at add_task's prompts: a title with blanks around it, due moments
\* before, at and after the clock's first reading, a priority outside the levels
AppCreateInputs ==
    {BaseCreate, With(BaseCreate, "title", TitlePadded),
     With(BaseCreate, "title", <<" ">>),
     With(BaseCreate, "due_date", DuePastDay),
     With(BaseCreate, "due_date", DueTodayNoon),
     With(BaseCreate, "priority", PrioUrgent)}

\* What is typed at update_task's prompts
AppUpdateInputs ==
    {EmptyTasks, [title |-> <<>>], [priority |-> PrioHighLower],
     [priority |-> PrioUrgent], [status |-> StatusDone],
     [due_date |-> DuePastDay], [due_date |-> DueTodayNoon]}

\* input(...).strip() on every text of a mapping
StripAll(d) == [k \in DOMAIN d |-> strip(d[k])]

\* What add_task's prompts let through at clock reading `clock`: each prompt
\* repeats until its validator accepts the text
AddInputs(clock) ==
    {StripAll(d) : d \in
        {d \in AppCreateInputs :
            /\ _validate_title(strip(d.title)).ok
            /\ _validate_description(strip(d.description)).ok
            /\ _parse_date(strip(d.due_date), TRUE, clock).ok
            /\ _validate_priority(strip(d.priority)).ok}}

\* What update_task's prompts let through: title and description as typed; due
\* date, priority and status repeat until the validator accepts the text; any other
\* menu choice leaves the payload empty
UpdateChoices(clock) ==
    {StripAll(u) : u \in
        {u \in AppUpdateInputs :
            /\ Present(u, "due_date") => _parse_date(strip(u.due_date), TRUE, clock).ok
            /\ Present(u, "priority") => _validate_priority(strip(u.priority)).ok
            /\ Present(u, "status") => _validate_status(strip(u.status)).ok}}

\* operation_queue.put(...) followed at once by a return to the menu (mutant)
Put_no_wait(op) ==
    /\ operation_queue' = Append(operation_queue, op)
    /\ enqueued' = enqueued + 1
    /\ callerOp' = op
    /\ callerPc' = "menu"

\* operation_queue.put(...), then the wait on result_queue
Put(op) ==
    /\ operation_queue' = Append(operation_queue, op)
    /\ enqueued' = enqueued + 1
    /\ callerOp' = op
    /\ callerPc' = "waiting"

\* TaskManagementApp.add_task up to operation_queue.put
CallerAdd ==
    /\ callerPc = "menu"
    /\ calls < MaxCalls
    /\ calls' = calls + 1
    /\ \E task_data \in AddInputs(now) : Put(Operation("add", task_data, enqueued + 1))
    /\ UNCHANGED <<now, store, nextId, last, taskVars, result_queue, workerPc, workerOp,
                   workerRes, dbOpen, posted, received, listing, found>>

\* What is typed at find_task's prompt: an identifier or a title
TitleLower == <<"r","e","p","o","r","t">>
TitleDotted == <<"R",".","p","o","r","t">>
TitlePrefix == <<"R","e","p">>
TitleSearches == {TitleLower, TitleDotted, TitlePrefix}
FindInputs ==
    {[by |-> "id", text |-> t] : t \in DOMAIN store \cup {IdShort}}
    \cup {[by |-> "title", text |-> t] : t \in TitleSearches}

\* The main thread's record of a get_tasks call and of what it returned
Found(filters, r) ==
    [filters |-> filters, ok |-> r.ok,
     ids |-> IF r.ok THEN [i \in 1..Len(r.val) |-> r.val[i].id] ELSE <<>>]

\* update_task, delete_task and mark_completed begin with find_task: the prompt, and
\* for a search by identifier ObjectId(task_id), which ends find_task if it raises;
\* then task_manager.get_tasks on the main thread, begun
CallerFind ==
    /\ callerPc = "menu"
    /\ calls < MaxCalls
    /\ calls' = calls + 1
    /\ \E type \in {"update", "delete", "mark_completed"}, search \in FindInputs :
           IF search.by = "id" /\ ~ObjectId(strip(search.text)).ok
           THEN callerPc' = "menu" /\ callerOp' = NoOperation
           ELSE /\ callerPc' = "finding"
                /\ callerOp' =
                       Operation(type,
                                 IF search.by = "id"
                                 THEN [_id |-> ObjectId(strip(search.text)).val]
                                 ELSE [title |-> strip(search.text)], 0)
    /\ UNCHANGED <<now, store, nextId, last, taskVars, operation_queue, result_queue,
                   workerPc, workerOp, workerRes, dbOpen, enqueued, posted, received,
                   listing, found>>

\* find_task: get_tasks has returned or raised.  No task found, or the call raised:
\* back to the menu.  One task: that one.  Several: the one the user selects.
CallerFound ==
    /\ callerPc = "finding"
    /\ \E r \in {get_tasks(store, nextId, callerOp.data, now)} :
           /\ found' = Found(callerOp.data, r)
           /\ IF ~r.ok \/ r.val = <<>>
              THEN callerPc' = "menu" /\ callerOp' = NoOperation
              ELSE \E i \in 1..Len(r.val) :
                       /\ callerPc' = "chosen"
                       /\ callerOp' = [callerOp EXCEPT !.data = [task_id |-> r.val[i].id]]
    /\ UNCHANGED <<now, mgrVars, taskVars, operation_queue, result_queue, workerPc,
                   workerOp, workerRes, dbOpen, enqueued, posted, received, listing>>

\* The rest of update_task, delete_task or mark_completed up to operation_queue.put
CallerEnqueue ==
    /\ callerPc = "chosen"
    /\ IF callerOp.type = "update"
       THEN \E update_data \in UpdateChoices(now) :
                Put(Operation("update", [task_id |-> callerOp.data.task_id,
                                         update_data |-> update_data], enqueued + 1))
       ELSE Put(Operation(callerOp.type, callerOp.data, enqueued + 1))
    /\ UNCHANGED <<now, mgrVars, taskVars, result_queue, workerPc, workerOp, workerRes,
                   dbOpen, posted, received, listing, found>>

\* delete_task: the confirmation is not "yes"
CallerCancel ==
    /\ callerPc = "chosen"
    /\ callerOp.type = "delete"
    /\ callerPc' = "menu"
    /\ callerOp' = NoOperation
    /\ UNCHANGED <<now, mgrVars, taskVars, operation_queue, result_queue, workerPc,
                   workerOp, workerRes, dbOpen, enqueued, posted, received,
                   listing, found>>

\* result = self.result_queue.get(): blocks until there is an outcome, takes the oldest
CallerReceive ==
    /\ callerPc = "waiting"
    /\ result_queue # <<>>
    /\ received' = [mine |-> callerOp.ticket, got |-> Head(result_queue)]
    /\ result_queue' = Tail(result_queue)
    /\ callerPc' = "menu"
    /\ callerOp' = NoOperation
    /\ UNCHANGED <<now, mgrVars, taskVars, operation_queue, workerPc, workerOp,
                   workerRes, dbOpen, enqueued, posted, listing, found>>

\* list_tasks, filter options 1 to 3: the filters built from what is typed
list_filters(choice, text) ==
    IF choice = "priority"
    THEN LET priority == capitalize(strip(text))
         IN  IF _validate_priority(priority).ok THEN Ok([priority |-> priority])
             ELSE Raise("ValueError", _validate_priority(priority).msg, EmptyTasks)
    ELSE IF choice = "status"
    THEN LET status == IF lower(strip(text)) = lower(STATUS_OPTIONS[2])
                       THEN STATUS_OPTIONS[2] ELSE capitalize(strip(text))
         IN  IF _validate_status(status).ok THEN Ok([status |-> status])
             ELSE Raise("ValueError", _validate_status(status).msg, EmptyTasks)
    ELSE Ok(EmptyTasks)

\* What is typed at list_tasks's prompts for options 1 to 3: the priority and status
\* prompts repeat until the text passes
ListTexts ==
    {[choice |-> "all", text |-> <<>>],
     [choice |-> "priority", text |-> PrioHighLower],
     [choice |-> "priority", text |-> PrioUrgent],
     [choice |-> "status", text |-> StatusProgressLower],
     [choice |-> "status", text |-> StatusDone]}
ListInputs == {x \in ListTexts : list_filters(x.choice, x.text).ok}

Star == <<"*">>

\* list_tasks, option 4 with '*' taken as the earliest date there is (mutant)
range_filters_star_as_min(from_date, to_date, clock) ==
    LET lo == IF from_date = Star THEN Ok(DateTime(1, 1, 1, 0, 0, 0, 0))
              ELSE _parse_filter_date(from_date, clock)
        hi == IF to_date = Star THEN Ok(NoDateTime) ELSE _parse_filter_date(to_date, clock)
    IN  IF ~lo.ok \/ ~hi.ok THEN [outcome |-> "error", filters |-> EmptyTasks]
        ELSE IF from_date = Star /\ to_date = Star
        THEN [outcome |-> "no bound", filters |-> EmptyTasks]
        ELSE IF from_date # Star /\ to_date # Star /\ DtLess(hi.val, lo.val)
        THEN [outcome |-> "invalid range", filters |-> EmptyTasks]
        ELSE [outcome |-> "accepted",
              filters |-> [due_date |->
                              (Gte :> lo.val)
                              @@ (IF to_date # Star THEN Lte :> hi.val ELSE EmptyTasks)]]

\* list_tasks, option 4: one turn of the loop over the From and To prompts.  A text
\* that does not parse, two '*' or a From after the To: the prompts are repeated.
range_filters(from_date, to_date, clock) ==
    LET lo == IF from_date = Star THEN Ok(NoDateTime)
              ELSE _parse_filter_date(from_date, clock)
        hi == IF to_date = Star THEN Ok(NoDateTime) ELSE _parse_filter_date(to_date, clock)
    IN  IF ~lo.ok \/ ~hi.ok THEN [outcome |-> "error", filters |-> EmptyTasks]
        ELSE IF from_date = Star /\ to_date = Star
        THEN [outcome |-> "no bound", filters |-> EmptyTasks]
        ELSE IF from_date # Star /\ to_date # Star /\ DtLess(hi.val, lo.val)
        THEN [outcome |-> "invalid range", filters |-> EmptyTasks]
        ELSE [outcome |-> "accepted",
              filters |-> [due_date |->
                              (IF from_date # Star THEN Gte :> lo.val ELSE EmptyTasks)
                              @@ (IF to_date # Star THEN Lte :> hi.val ELSE EmptyTasks)]]

\* What is typed at the From and To prompts
RangeInputs ==
    {<<Star, Star>>, <<DueLater, DuePastDay>>, <<DueToday, Star>>, <<Star, DueLater>>,
     <<DuePastDay, DueLater>>, <<DueGarbage, Star>>}

\* list_tasks: the filter option is chosen.  Options 1 to 3 lead to
\* task_manager.get_tasks(filters) on the main thread; option 4 to the range prompts.
CallerList ==
    /\ callerPc = "menu"
    /\ calls < MaxCalls
    /\ calls' = calls + 1
    /\ \/ \E x \in ListInputs :
              /\ callerPc' = "listing"
              /\ callerOp' = Operation("list", list_filters(x.choice, x.text).val, 0)
       \/ /\ callerPc' = "range_prompt"
          /\ callerOp' = Operation("list", EmptyTasks, 0)
    /\ UNCHANGED <<now, store, nextId, last, taskVars, operation_queue,
                   result_queue, workerPc, workerOp, workerRes, dbOpen, enqueued, posted,
                   received, listing, found>>

\* list_tasks, option 4: both prompts are answered
CallerListRange ==
    /\ callerPc = "range_prompt"
    /\ \E asked \in RangeInputs :
           \E r \in {range_filters(strip(asked[1]), strip(asked[2]), now)} :
               /\ listing' = [from |-> strip(asked[1]), to |-> strip(asked[2]),
                              outcome |-> r.outcome, filters |-> r.filters]
               /\ IF r.outcome = "accepted"
                  THEN callerPc' = "listing" /\ callerOp' = Operation("list", r.filters, 0)
                  ELSE UNCHANGED <<callerPc, callerOp>>
    /\ UNCHANGED <<now, mgrVars, taskVars, operation_queue, result_queue, workerPc,
                   workerOp, workerRes, dbOpen, enqueued, posted, received, found>>

\* list_tasks: get_tasks has returned or raised
CallerListed ==
    /\ callerPc = "listing"
    /\ found' = Found(callerOp.data, get_tasks(store, nextId, callerOp.data, now))
    /\ callerPc' = "menu"
    /\ callerOp' = NoOperation
    /\ UNCHANGED <<now, mgrVars, taskVars, operation_queue, result_queue,
                   workerPc, workerOp, workerRes, dbOpen, enqueued, posted, received,
                   listing>>

\* delete_all_tasks, confirmed: task_manager.delete_all_tasks() on the main thread, begun
CallerDeleteAll ==
    /\ callerPc = "menu"
    /\ calls < MaxCalls
    /\ calls' = calls + 1
    /\ callerPc' = "deleting_all"
    /\ UNCHANGED <<now, store, nextId, last, taskVars, callerOp, operation_queue,
                   result_queue, workerPc, workerOp, workerRes, dbOpen, enqueued, posted,
                   received, listing, found>>

\* delete_all_tasks: the call has returned
CallerDeletedAll ==
    /\ callerPc = "deleting_all"
    /\ store' = delete_all_tasks(store, nextId).tasks
    /\ callerPc' = "menu"
    /\ UNCHANGED <<now, nextId, calls, last, taskVars, callerOp, operation_queue,
                   result_queue, workerPc, workerOp, workerRes, dbOpen, enqueued, posted,
                   received, listing, found>>

\* close(): self.operation_queue.put(None), then worker_thread.join()
CallerClose ==
    /\ callerPc = "menu"
    /\ operation_queue' = Append(operation_queue, Shutdown)
    /\ callerPc' = "joining"
    /\ UNCHANGED <<now, mgrVars, taskVars, callerOp, result_queue, workerPc, workerOp,
                   workerRes, dbOpen, enqueued, posted, received, listing, found>>

\* close() calling db.close() without waiting for the worker (mutant)
CloseDb_no_join ==
    /\ callerPc = "joining"
    /\ dbOpen' = FALSE
    /\ callerPc' = "closed"
    /\ UNCHANGED <<now, mgrVars, taskVars, callerOp, operation_queue, result_queue,
                   workerPc, workerOp, workerRes, enqueued, posted, received,
                   listing, found>>

\* close(): worker_thread.join() returns once the worker has terminated, then db.close()
CloseDb ==
    /\ callerPc = "joining"
    /\ workerPc = "terminated"
    /\ dbOpen' = FALSE
    /\ callerPc' = "closed"
    /\ UNCHANGED <<now, mgrVars, taskVars, callerOp, operation_queue, result_queue,
                   workerPc, workerOp, workerRes, enqueued, posted, received,
                   listing, found>>

\* _process_operations: operation = self.operation_queue.get(); None ends the loop
WorkerGet ==
    /\ workerPc = "get"
    /\ operation_queue # <<>>
    /\ operation_queue' = Tail(operation_queue)
    /\ IF Head(operation_queue) = Shutdown
       THEN workerPc' = "terminated" /\ UNCHANGED workerOp
       ELSE workerPc' = "executing" /\ workerOp' = Head(operation_queue)
    /\ UNCHANGED <<now, mgrVars, taskVars, callerPc, callerOp, result_queue, workerRes,
                   dbOpen, enqueued, posted, received, listing, found>>

\* The TaskManager call _process_operations makes for an operation
Dispatch(op) ==
    IF op.type = "add" THEN create_task(store, nextId, op.data, now)
    ELSE IF op.type = "update"
         THEN update_task(store, nextId, op.data.task_id, op.data.update_data, now)
    ELSE IF op.type = "delete" THEN delete_task(store, nextId, op.data.task_id)
    ELSE IF op.type = "mark_completed" THEN mark_completed(store, nextId, op.data.task_id)
    ELSE Returned(store, nextId, FALSE, None, 0)

\* The outcome _process_operations builds from what the call returned or raised
Outcome(r, op) ==
    [success |-> r.ok, ret |-> r.ret, id |-> r.id, error |-> r.msg, timestamp |-> now,
     ticket |-> op.ticket]

\* _process_operations: the TaskManager call returns or raises
WorkerExec ==
    /\ workerPc = "executing"
    /\ \E r \in {Dispatch(workerOp)} :
           /\ store' = r.tasks
           /\ nextId' = r.n
           /\ workerRes' = Outcome(r, workerOp)
    /\ workerPc' = "posting"
    /\ UNCHANGED <<now, calls, last, taskVars, callerPc, callerOp, operation_queue,
                   result_queue, workerOp, dbOpen, enqueued, posted, received,
                   listing, found>>

\* _process_operations putting an outcome only for a call that returned (mutant)
WorkerPost_success_only ==
    /\ workerPc = "posting"
    /\ IF workerRes.success
       THEN result_queue' = Append(result_queue, workerRes) /\ posted' = Append(posted, workerRes)
       ELSE UNCHANGED <<result_queue, posted, listing, found>>
    /\ workerPc' = "get"
    /\ workerOp' = NoOperation
    /\ workerRes' = NoResult
    /\ UNCHANGED <<now, mgrVars, taskVars, callerPc, callerOp, operation_queue, dbOpen,
                   enqueued, received, listing, found>>

\* _process_operations: self.result_queue.put(...) in the try or in the except, then
\* task_done() and the next turn of the loop
WorkerPost ==
    /\ workerPc = "posting"
    /\ result_queue' = Append(result_queue, workerRes)
    /\ posted' = Append(posted, workerRes)
    /\ workerPc' = "get"
    /\ workerOp' = NoOperation
    /\ workerRes' = NoResult
    /\ UNCHANGED <<now, mgrVars, taskVars, callerPc, callerOp, operation_queue, dbOpen,
                   enqueued, received, listing, found>>

\* The worker thread's position moves on: it takes an operation off the queue, comes
\* back from the TaskManager call, or has put the outcome.  Inside AppNext only
\* WorkerGet, WorkerExec and WorkerPost change workerPc, and one of them is enabled
\* exactly when this is.
WorkerAdvance ==
    \/ /\ workerPc = "get"
       /\ operation_queue # <<>>
       /\ workerPc' = IF Head(operation_queue) = Shutdown THEN "terminated" ELSE "executing"
    \/ /\ workerPc = "executing"
       /\ workerPc' = "posting"
    \/ /\ workerPc = "posting"
       /\ workerPc' = "get"

AppInit == now = T0 /\ MgrIdle /\ TaskIdle /\ AppIdle
AppNext ==
    \/ Tick
    \/ CallerAdd \/ CallerFind \/ CallerFound \/ CallerEnqueue \/ CallerCancel
    \/ CallerReceive \/ CallerList \/ CallerListRange \/ CallerListed
    \/ CallerDeleteAll \/ CallerDeletedAll
    \/ CallerClose \/ CloseDb
    \/ WorkerGet \/ WorkerExec \/ WorkerPost
\* The worker is a thread of its own: whenever it can take a step it eventually does
AppSpec == AppInit /\ [][AppNext]_vars /\ WF_workerPc(WorkerAdvance)

(***************************************************************************)
(* Claims about the Task entity (TaskSpec)                                 *)
(***************************************************************************)
\* a is strictly earlier than b, all seven fields compared, most significant first
StrictlyBefore(a, b) ==
    \E k \in 1..7 :
        /\ DtKey(a)[k] < DtKey(b)[k]
        /\ \A j \in 1..(k - 1) : DtKey(a)[j] = DtKey(b)[j]

IsBareDate(s) == Len(s) = 10 /\ parser_parse(s).ok

PastDateRaised(res) ==
    ~res.ok /\ res.err = "ValueError" /\ res.msg = "Due date and time cannot be in the past"

\* C3: a due-date text with no time component (a bare YYYY-MM-DD) parses to 23:59:59
\* on that date in both modes, so under future enforcement it is accepted exactly
\* when the clock has not passed 23:59:59 of that day (a bare date equal to today is
\* accepted at any earlier clock time).
C3_BareDateIsEndOfDay ==
    (taskPc = "parsed" /\ IsBareDate(parsed.date_str)) =>
        LET eod == EndOfDay(parser_parse(parsed.date_str).val)
        IN  /\ parsed.res.ok => parsed.res.val = eod
            /\ ~parsed.validate_past => parsed.res.ok
            /\ parsed.validate_past =>
                   (parsed.res.ok <=> ~StrictlyBefore(eod, parsed.current_date))

\* C4: a Task constructed from valid fields, converted by to_dict and rebuilt by
\* from_dict, has the same title, description, due_date, priority and status and
\* the original creation_timestamp.
C4_RoundTripEqual ==
    taskPc = "back" =>
        /\ taskBack.ok
        /\ taskBack.val.title = taskMade.val.title
        /\ taskBack.val.description = taskMade.val.description
        /\ taskBack.val.due_date = taskMade.val.due_date
        /\ taskBack.val.priority = taskMade.val.priority
        /\ taskBack.val.status = taskMade.val.status
        /\ taskBack.val.creation_timestamp = taskMade.val.creation_timestamp

\* C6: with validate_past the call raises the past-date error exactly when the
\* instant the parser returned is strictly before the clock reading, all of date
\* and time compared; without it every parseable text is accepted and its instant
\* returned.
C6_PastDateExactlyWhenBefore ==
    taskPc = "parsed" =>
        LET p == parser_parse(parsed.date_str)
        IN  /\ parsed.validate_past =>
                   /\ PastDateRaised(parsed.res)
                          <=> (p.ok /\ StrictlyBefore(p.val, parsed.current_date))
                   /\ parsed.res.ok <=> (p.ok /\ ~StrictlyBefore(p.val, parsed.current_date))
                   /\ parsed.res.ok => parsed.res.val = p.val
            /\ ~parsed.validate_past =>
                   /\ parsed.res.ok <=> p.ok
                   /\ parsed.res.ok => parsed.res.val = p.val

\* C6 witness: a due time in the same second as the clock reading, which is half a
\* second further on, is refused under enforcement
C6_Witness ==
    /\ taskPc = "parsed"
    /\ parsed.validate_past
    /\ parsed.date_str = DueTodayNoon
    /\ parsed.current_date = T1
    /\ PastDateRaised(parsed.res)

(***************************************************************************)
(* Claims about the TaskManager over the store (Spec)                      *)
(***************************************************************************)
\* Some field present in an update payload fails its validator, the due date under
\* future enforcement at clock reading `at`
PayloadFails(data, at) ==
    \/ Present(data, "title") /\ ~_validate_title(data.title).ok
    \/ Present(data, "description") /\ ~_validate_description(data.description).ok
    \/ Present(data, "priority") /\ ~_validate_priority(data.priority).ok
    \/ Present(data, "status") /\ ~_validate_status(data.status).ok
    \/ Present(data, "due_date") /\ ~_parse_date(data.due_date, TRUE, at).ok

\* C1: an update_task call on a stored record whose payload has a field that fails
\* its validator (title, description, priority, status, or due_date under future
\* enforcement) fails and leaves the store unchanged.
C1_UpdateValidatesEveryField ==
    (last.op = "update" /\ last.matched /\ PayloadFails(last.data, last.at)) =>
        ~last.ok /\ ~last.changed

\* C2: in every reachable store state every stored record's priority is one of Low,
\* Medium, High and its status one of Pending, In Progress, Completed, in the
\* canonical capitalized form.
C2_CanonicalPriorityAndStatus ==
    \A k \in DOMAIN store :
        /\ store[k].priority \in Range(PRIORITY_LEVELS)
        /\ store[k].status \in Range(STATUS_OPTIONS)

\* A create request fails validation at clock reading `at`: a bad title, description,
\* priority or status, an unparseable due date, or a due date strictly before `at`
CreateFails(data, at) ==
    \/ ~_validate_title(data.title).ok
    \/ ~_validate_description(data.description).ok
    \/ ~_validate_priority(data.priority).ok
    \/ Present(data, "status") /\ ~_validate_status(data.status).ok
    \/ ~parser_parse(data.due_date).ok
    \/ StrictlyBefore(parser_parse(data.due_date).val, at)

\* C5: a create request whose fields fail validation never reaches the store:
\* create_task raises, Database.add_task is not called and the stored records are
\* unchanged.
C5_InvalidCreateNeverStored ==
    (last.op = "create" /\ CreateFails(last.data, last.at)) =>
        /\ ~last.ok
        /\ last.dbCalls = 0
        /\ ~last.changed

\* C5 witness: with a record stored, a create request with a due date in the same
\* second as the clock reading, half a second earlier, has been refused
C5_Witness ==
    /\ last.op = "create"
    /\ last.data.due_date = DueTodayNoon
    /\ last.at = T1
    /\ ~last.ok
    /\ store # EmptyTasks

\* One of the checks update_task makes on a payload refuses it
UpdateCheckRefuses(data, at) ==
    \/ Present(data, "priority") /\ ~_validate_priority(data.priority).ok
    \/ Present(data, "status") /\ ~_validate_status(data.status).ok
    \/ Present(data, "due_date") /\ ~_parse_date(data.due_date, TRUE, at).ok

\* C10: update, delete and complete called with a malformed identifier raise the
\* invalid-id-format error before any store call, the store unchanged; called with a
\* well-formed identifier that matches no record they raise no identifier error and
\* leave the store unchanged: delete and complete return false, and so does update
\* whenever the payload passes the checks update_task makes on it.
C10_MalformedIdVersusNoMatch ==
    last.op \in {"update", "delete", "complete"} =>
        /\ last.task_id \in MalformedIds =>
               /\ ~last.ok /\ last.err = "ValueError" /\ last.msg = InvalidTaskId
               /\ last.dbCalls = 0
               /\ ~last.changed
        /\ (last.task_id \notin MalformedIds /\ ~last.matched) =>
               /\ ~last.changed
               /\ last.msg # InvalidTaskId
               /\ last.ok => ~last.ret
               /\ ~last.ok => last.op = "update" /\ UpdateCheckRefuses(last.data, last.at)

\* C10 witness: with a record stored, an update with a well-formed identifier that
\* matches no record has returned false
C10_Witness ==
    /\ last.op = "update"
    /\ last.task_id = IdUnknown
    /\ last.data = [priority |-> PrioHighLower]
    /\ store # EmptyTasks
    /\ last.ok /\ ~last.ret /\ ~last.changed

(***************************************************************************)
(* Claims about the console application's two threads (AppSpec)            *)
(***************************************************************************)
Tickets(q) == [i \in 1..Len(q) |-> q[i].ticket]
WorkerIdle == workerPc \in {"get", "terminated"}
QueuedOperations == SelectSeq(operation_queue, LAMBDA op : op # Shutdown)
DirectCall == callerPc \in {"finding", "listing", "deleting_all"}

\* C7: every add, update, delete or mark_completed operation put on the queue gets
\* exactly one outcome from the worker, whether its call returned or raised; outcomes
\* are posted in the order the operations were put; a call that raised does not stop
\* the worker; and the outcome a waiting caller takes is the one of its own operation.
C7_OneOutcomePerOperationInOrder ==
    /\ [](/\ Tickets(posted) = [i \in 1..Len(posted) |-> i]
          /\ Tickets(QueuedOperations) =
                 [i \in 1..Len(QueuedOperations) |-> enqueued - Len(QueuedOperations) + i]
          /\ (WorkerIdle /\ QueuedOperations = <<>>) => Len(posted) = enqueued
          /\ workerPc \in {"executing", "posting"} =>
                 /\ workerOp.ticket = Len(posted) + 1
                 /\ Len(posted) + 1 + Len(QueuedOperations) = enqueued
          /\ (callerPc = "waiting" /\ result_queue # <<>>) =>
                 Head(result_queue).ticket = callerOp.ticket
          /\ received.got.ticket = received.mine)
    /\ \A k \in 1..MaxCalls : (enqueued >= k) ~> (Len(posted) >= k)

\* An operation whose call raised has its outcome posted, and the caller has since
\* taken the outcome of a later operation whose call returned
C7_Witness ==
    /\ \E i \in 1..Len(posted) : ~posted[i].success /\ i < received.mine
    /\ received.got.success
    /\ received.got.ticket = received.mine

\* C8: at most one operation is in flight against the store: the worker is never
\* inside a TaskManager call while the main thread is inside one of its direct calls
\* (get_tasks from list_tasks or find_task, delete_all_tasks), because the main
\* thread waits for the outcome after every put.
C8_OneOperationInFlight ==
    /\ ~(workerPc = "executing" /\ DirectCall)
    /\ workerPc \in {"executing", "posting"} => callerPc = "waiting"
    /\ DirectCall => (WorkerIdle /\ operation_queue = <<>>)

\* The worker is inside a call with the main thread waiting, after the main thread
\* has made direct calls of its own on a store the worker had filled
C8_Witness ==
    /\ workerPc = "executing"
    /\ callerPc = "waiting"
    /\ workerOp.type # "add"
    /\ Len(posted) >= 1

\* C9: close() puts the stop marker behind every operation put before it; the worker
\* has processed every earlier operation when it terminates; the store connection is
\* closed only after the worker has terminated; and once the marker is on the queue
\* the worker eventually terminates.
C9_ShutdownDrainsThenCloses ==
    /\ [](/\ \A i \in 1..Len(operation_queue) :
                 operation_queue[i] = Shutdown => i = Len(operation_queue)
          /\ workerPc = "terminated" =>
                 (operation_queue = <<>> /\ Len(posted) = enqueued)
          /\ ~dbOpen => workerPc = "terminated"
          /\ callerPc = "closed" => ~dbOpen)
    /\ (callerPc = "joining") ~> (workerPc = "terminated")

\* The application has closed after the worker processed operations
C9_Witness ==
    /\ ~dbOpen
    /\ callerPc = "closed"
    /\ workerPc = "terminated"
    /\ Len(posted) >= 2

(***************************************************************************)
(* Claims about single TaskManager operations and what they leave alone    *)
(* (Spec)                                                                  *)
(***************************************************************************)
\* The step is a TaskManager call of kind op
Called(op) == calls' = calls + 1 /\ last'.op = op

\* Every record stored before the step other than `except` is stored after it, the same
OthersUnchanged(except) ==
    \A k \in DOMAIN store \ except : k \in DOMAIN store' /\ store'[k] = store[k]

\* C11: a create with valid fields and no status that returns adds exactly one record
\* and returns its identifier, new to the store; the record has the trimmed title and
\* description, the priority in capitalized form, status 'Pending', a due date held as a
\* timestamp and the creation_timestamp of the insert; no other record changes.
C11_CreateAddsOneNormalizedRecord ==
    [][(Called("create") /\ last'.ok /\ ~Present(last'.data, "status")) =>
          /\ last'.id \notin DOMAIN store
          /\ DOMAIN store' = DOMAIN store \cup {last'.id}
          /\ OthersUnchanged({})
          /\ store'[last'.id].title = strip(last'.data.title)
          /\ store'[last'.id].description = strip(last'.data.description)
          /\ store'[last'.id].priority = capitalize(strip(last'.data.priority))
          /\ store'[last'.id].priority \in Range(PRIORITY_LEVELS)
          /\ store'[last'.id].status = STATUS_OPTIONS[1]
          /\ store'[last'.id].due_date.type = "datetime"
          /\ store'[last'.id].creation_timestamp = now
          /\ last'.dbCalls = 1]_vars

\* C11 witness: a create with a title typed with blanks around it and priority 'high'
\* has returned the identifier of the second record of the store
C11_Witness ==
    /\ last.op = "create"
    /\ last.ok
    /\ last.data.title = TitlePadded
    /\ last.data.priority = PrioHighLower
    /\ ~Present(last.data, "status")
    /\ last.id \in DOMAIN store
    /\ store[last.id].title = TitleReport
    /\ store[last.id].priority = PRIORITY_LEVELS[3]
    /\ Cardinality(DOMAIN store) = 2

\* C12: a stored record's creation_timestamp is set at insert and no update or
\* complete operation, whatever its payload, changes it afterwards.
C12_CreationTimestampNeverChanges ==
    [][\A k \in DOMAIN store \cap DOMAIN store' :
           store'[k].creation_timestamp = store[k].creation_timestamp]_vars

\* C17: delete_all on a store that holds records removes every record and returns
\* true; on an empty store it returns false, raises nothing and leaves the store
\* empty; so of two delete_all calls in a row the second returns false.
C17_DeleteAllIdempotent ==
    [][Called("delete_all") =>
           /\ last'.ok
           /\ store' = EmptyTasks
           /\ last'.ret <=> store # EmptyTasks
           /\ last.op = "delete_all" => ~last'.ret]_vars

\* C17 witness: after a record was stored, delete_all has found the store already
\* empty and returned false
C17_Witness ==
    /\ last.op = "delete_all"
    /\ last.ok
    /\ ~last.ret
    /\ ~last.changed
    /\ store = EmptyTasks
    /\ nextId > 1

\* C18: complete(id) on a stored record sets its status to 'Completed' and changes
\* nothing else of it and no other record; it returns true when the status changed,
\* false when the record was already 'Completed' or no record matches.
C18_CompleteChangesOnlyStatus ==
    [][(Called("complete") /\ last'.ok) =>
           LET id == ObjectId(last'.task_id).val
           IN  IF id \in DOMAIN store
               THEN /\ DOMAIN store' = DOMAIN store
                    /\ store'[id] = [store[id] EXCEPT !.status = STATUS_OPTIONS[3]]
                    /\ OthersUnchanged({id})
                    /\ last'.ret <=> store[id].status # STATUS_OPTIONS[3]
               ELSE store' = store /\ ~last'.ret]_vars

\* C18 witness: complete on a record that was already 'Completed' has returned false
C18_Witness ==
    /\ last.op = "complete"
    /\ last.ok
    /\ last.matched
    /\ ~last.ret
    /\ ~last.changed
    /\ store[last.task_id].status = STATUS_OPTIONS[3]

(***************************************************************************)
(* Claims about status validation and due-date display (TaskSpec)          *)
(***************************************************************************)
\* s is the words 'in' and 'progress', in any letter case, with one or more blanks
\* between them
IsTwoWordInProgress(s) ==
    \E n \in 1..Len(s) :
        lower(s) = <<"i","n">> \o Repeat(" ", n) \o <<"p","r","o","g","r","e","s","s">>

AllowedStatusesRaised(res) ==
    /\ ~res.ok
    /\ res.err = "ValueError"
    /\ res.msg = "Status must be one of: Pending, In Progress, Completed"

\* C13: _validate_status maps every letter-case variant of the two words 'in
\* progress', trimmed, with one or several blanks between the words, to 'In
\* Progress'; maps the letter-case variants of 'pending' and 'completed' to 'Pending'
\* and 'Completed'; and fails with the list of allowed values for any other text.
C13_StatusCanonicalForm ==
    taskPc = "validated" =>
        LET s == strip(validated.status)
            res == validated.res
        IN  /\ IsTwoWordInProgress(s) => (res.ok /\ res.val = STATUS_OPTIONS[2])
            /\ lower(s) = lower(STATUS_OPTIONS[1]) => (res.ok /\ res.val = STATUS_OPTIONS[1])
            /\ lower(s) = lower(STATUS_OPTIONS[3]) => (res.ok /\ res.val = STATUS_OPTIONS[3])
            /\ (/\ ~IsTwoWordInProgress(s)
                /\ lower(s) # lower(STATUS_OPTIONS[1])
                /\ lower(s) # lower(STATUS_OPTIONS[3])) => AllowedStatusesRaised(res)

\* C14: wherever a task's due date is displayed, by Task.__str__ and by the listing
\* of list_tasks, a time of day of exactly 23:59:59 is shown as the date alone and
\* any other time of day, 23:30 included, is shown with HH:MM after the date.
C14_DateOnlyExactlyAtEndOfDay ==
    taskPc = "shown" =>
        LET dt == shown.due_date
            text == IF dt.hour = 23 /\ dt.minute = 59 /\ dt.second = 59
                    THEN strftime_date(dt) ELSE strftime_minutes(dt)
        IN  shown.str = text /\ shown.listed = text

(***************************************************************************)
(* Claims about the main thread's queries (AppSpec)                        *)
(***************************************************************************)
\* The step is a get_tasks call of the main thread coming back
Queried == callerPc \in {"finding", "listing"} /\ callerPc' # callerPc

\* The identifiers of the stored records whose title is `title` up to letter case
TitledAs(title) == {k \in DOMAIN store : lower(store[k].title) = lower(title)}

\* C15: a title filter finds exactly the stored records whose title equals the filter
\* value as a whole, up to letter case; no character of the value acts as a pattern.
C15_TitleFilterIsLiteral ==
    [][(Queried /\ found'.ok /\ "title" \in DOMAIN found'.filters) =>
           Range(found'.ids) = TitledAs(found'.filters.title)]_vars

\* The bounds asked for at the range prompts, '*' left out
BoundsAsked(from_date, to_date) ==
    (IF from_date # Star THEN Gte :> parser_parse(from_date).val ELSE EmptyTasks)
    @@ (IF to_date # Star THEN Lte :> parser_parse(to_date).val ELSE EmptyTasks)

\* C16: at the due-date range prompts a '*' becomes an omitted bound; two '*' are
\* refused, and so is a lower bound after the upper bound, in both cases with no
\* get_tasks call; otherwise the filter handed to get_tasks carries a lower and an
\* upper bound for exactly the bounds given, and the records found are those whose
\* due timestamp is within the bounds, the bounds included.
C16_RangeFilterBounds ==
    [][/\ listing' # listing =>
              LET lo == parser_parse(listing'.from)
                  hi == parser_parse(listing'.to)
                  refused == /\ callerPc' = "range_prompt"
                             /\ found' = found
                             /\ listing'.filters = EmptyTasks
              IN  /\ (listing'.from = Star /\ listing'.to = Star) =>
                         (listing'.outcome = "no bound" /\ refused)
                  /\ (lo.ok /\ hi.ok /\ StrictlyBefore(hi.val, lo.val)) =>
                         (listing'.outcome = "invalid range" /\ refused)
                  /\ listing'.outcome # "accepted" => refused
                  /\ listing'.outcome = "accepted" =>
                         /\ DOMAIN listing'.filters = {"due_date"}
                         /\ listing'.filters.due_date =
                                BoundsAsked(listing'.from, listing'.to)
                         /\ callerPc' = "listing"
                         /\ callerOp'.data = listing'.filters
       /\ (Queried /\ found'.ok /\ "due_date" \in DOMAIN found'.filters) =>
              /\ found'.filters = listing.filters
              /\ \A k \in DOMAIN store :
                     store[k].due_date.type = "datetime" =>
                         (k \in Range(found'.ids) <=>
                              /\ Gte \in DOMAIN found'.filters.due_date =>
                                     ~StrictlyBefore(store[k].due_date.dt,
                                                     found'.filters.due_date[Gte])
                              /\ Lte \in DOMAIN found'.filters.due_date =>
                                     ~StrictlyBefore(found'.filters.due_date[Lte],
                                                     store[k].due_date.dt))]_vars

\* C16 witness: a range with '*' for From and a date for To has been accepted and the
\* listing that followed has found a stored record
C16_Witness ==
    /\ listing.outcome = "accepted"
    /\ listing.from = Star
    /\ listing.to = DueLater
    /\ found.filters = listing.filters
    /\ found.ok
    /\ found.ids # <<>>
    /\ callerPc = "menu"

\* The due moment of a stored record, whichever way it is held
DueMoment(doc) ==
    IF doc.due_date.type = "datetime" THEN doc.due_date.dt
    ELSE parser_parse(doc.due_date.str).val

\* C19: every stored record's due_date is a timestamp, never the text that was typed,
\* so a due-date range listing finds every record whose due moment is within the
\* bounds, the records whose due date an update has changed included.
C19_DueDateStoredAsTimestamp ==
    [][/\ \A k \in DOMAIN store' : store'[k].due_date.type = "datetime"
       /\ (Queried /\ found'.ok /\ "due_date" \in DOMAIN found'.filters) =>
              \A k \in DOMAIN store :
                  (/\ Gte \in DOMAIN found'.filters.due_date =>
                          ~StrictlyBefore(DueMoment(store[k]), found'.filters.due_date[Gte])
                   /\ Lte \in DOMAIN found'.filters.due_date =>
                          ~StrictlyBefore(found'.filters.due_date[Lte], DueMoment(store[k])))
                  => k \in Range(found'.ids)]_vars
====
